---- MODULE Spec2Model ----
(***************************************************************************)
(* tcpie: a TCP server with a token-bucket admission filter, a single      *)
(* accept loop (handleRequests) and a fixed worker pool fed through one    *)
(* buffered channel (JobChan).                                             *)
(*                                                                         *)
(* Two specifications share the variables:                                 *)
(*   Spec    the server: dispatcher, worker pool, Close, limiter, clock    *)
(*   SpecTB  the token bucket alone, called at arbitrary non-decreasing    *)
(*           times                                                         *)
(*                                                                         *)
(* Time is counted in ticks, TicksPerSec ticks to the second; the clock is *)
(* read only by refillBucket, so each call draws the time it reads, not    *)
(* earlier than LastRefill.  The float arithmetic of refillBucket is       *)
(* modelled exactly (as a rational), the int64() conversion as truncation. *)
(***************************************************************************)
EXTENDS Integers, Sequences, FiniteSets, TLC

\* ---- bounds of the model ----
MaxW == 2
MaxQ == 1
MaxConns == 3
MaxRate == 2
SrvMaxRate == 1
SrvMaxTok == 1
MaxTok == 2
MaxNow == 2
TicksPerSec == 2
MaxTime == 4
MaxCalls == 6

MaxCallers == 3

\* the two kinds of thread of control that touch a connection
Dispatcher == "dispatcher"
Worker == "worker"

VARIABLES
    maxWorkers,   \* WorkerPool.MaxWorkers
    queueSize,    \* WorkerPool.QueueSize
    JobChan,      \* buffered contents of WorkerPool.JobChan (job ids, FIFO)
    chanClosed,   \* close(JobChan) has happened
    wg,           \* WorkerPool.wg counter
    wpc,          \* position of each worker goroutine
    wjob,         \* job a worker holds (0: none)
    dpc,          \* position of the accept loop
    connCount,    \* handleRequests' connCount
    listener,     \* Server.Listener: "open" or "closed"
    exited,       \* the process has ended (log.Fatalf) or crashed
    cpc,          \* position of the goroutine calling Close
    processed,    \* Metrics.Requests{"processed"}
    tb,           \* the TokenBucket
    hist,         \* IsReqAllowed calls so far: time and result
    atClose,      \* what close(JobChan) found: the buffer, the dispatcher's position
    mu,           \* TokenBucket.Mutex: 0 when free, else the caller holding it
    callers,      \* concurrent callers of IsReqAllowed: position and result
    io            \* per connection: the operations performed on it, in order

vars == <<maxWorkers, queueSize, JobChan, chanClosed, wg, wpc, wjob, dpc,
          connCount, listener, exited, cpc, processed, tb, hist, atClose, mu,
          callers, io>>

poolVars == <<maxWorkers, queueSize, JobChan, chanClosed, wg, wpc, wjob>>
dispVars == <<dpc, connCount, listener, exited, cpc, processed, atClose, io>>
muVars   == <<mu, callers>>
tbVars   == <<tb, hist, mu, callers>>

Min(a, b) == IF a < b THEN a ELSE b

WorkerIds == 0 .. (MaxW - 1)

CallerIds == 1 .. MaxCallers

\* a goroutine calling IsReqAllowed: where it is, and what the call returned
Caller(pc, ok) == [pc |-> pc, ok |-> ok]
ConnIds   == 1 .. MaxConns

\* ---------------------------------------------------------------------
\* Token bucket (internals/rate-limiter/rate-limiter.go)
\* ---------------------------------------------------------------------

RateLimiter(rate, tokens, t) ==
    [MaxTokens |-> tokens, Tokens |-> tokens, Rate |-> rate, LastRefill |-> t]

\* refillBucket without the cap at MaxTokens
refillBucketNoCap(b, t) ==
    [b EXCEPT !.Tokens = (b.Tokens * TicksPerSec + (t - b.LastRefill) * b.Rate) \div TicksPerSec,
              !.LastRefill = t]

\* refillBucket that forgets to advance LastRefill
refillBucketKeepLast(b, t) ==
    [b EXCEPT !.Tokens = Min((b.Tokens * TicksPerSec + (t - b.LastRefill) * b.Rate) \div TicksPerSec,
                             b.MaxTokens)]

\* refillBucket rounding the new token count up instead of truncating it
refillBucketRoundsUp(b, t) ==
    [b EXCEPT !.Tokens = Min((b.Tokens * TicksPerSec + (t - b.LastRefill) * b.Rate
                              + TicksPerSec - 1) \div TicksPerSec,
                             b.MaxTokens),
              !.LastRefill = t]

\* refillBucket adding one token per elapsed second whatever the rate
refillBucketIgnoresRate(b, t) ==
    [b EXCEPT !.Tokens = Min((b.Tokens * TicksPerSec + (t - b.LastRefill)) \div TicksPerSec,
                             b.MaxTokens),
              !.LastRefill = t]

\* tokensToAdd = elapsed.Seconds() * Rate; Tokens = int64(min(Tokens + tokensToAdd, MaxTokens))
refillBucket(b, t) ==
    [b EXCEPT !.Tokens = Min((b.Tokens * TicksPerSec + (t - b.LastRefill) * b.Rate) \div TicksPerSec,
                             b.MaxTokens),
              !.LastRefill = t]

\* IsReqAllowed testing Tokens >= 0 instead of Tokens > 0
IsReqAllowedOffByOne(b, t) ==
    LET r == refillBucket(b, t)
    IN  IF r.Tokens >= 0
        THEN [tb |-> [r EXCEPT !.Tokens = r.Tokens - 1], ok |-> TRUE]
        ELSE [tb |-> r, ok |-> FALSE]

IsReqAllowed(b, t) ==
    LET r == refillBucket(b, t)
    IN  IF r.Tokens > 0
        THEN [tb |-> [r EXCEPT !.Tokens = r.Tokens - 1], ok |-> TRUE]
        ELSE [tb |-> r, ok |-> FALSE]

\* the record hist keeps of one call: the time it read, its result, the
\* tokens its refill added and the tokens it left in the bucket
CallRecord(b, t) ==
    [t |-> t, ok |-> IsReqAllowed(b, t).ok,
     added |-> refillBucket(b, t).Tokens - b.Tokens,
     left |-> IsReqAllowed(b, t).tb.Tokens]

\* one call of IsReqAllowed on the bucket alone, at a time t >= LastRefill
Call ==
    /\ Len(hist) < MaxCalls
    /\ \E t \in tb.LastRefill .. MaxTime :
          /\ tb' = IsReqAllowed(tb, t).tb
          /\ hist' = Append(hist, CallRecord(tb, t))
          /\ UNCHANGED muVars
    /\ UNCHANGED <<maxWorkers, queueSize, JobChan, chanClosed, wg, wpc, wjob>>
    /\ UNCHANGED <<dpc, connCount, listener, exited, cpc, processed, atClose, io>>

\* ---------------------------------------------------------------------
\* Worker pool (internals/worker.go)
\* ---------------------------------------------------------------------

\* a channel sized for the waiting jobs only
CapacityQueueOnly == queueSize

\* make(chan Job, maxWorkers+queueSize)
Capacity == maxWorkers + queueSize

Ev(by, op) == [by |-> by, op |-> op]

\* a worker receiving the next job while it is still processing one
DequeueWhileBusy(w) ==
    /\ ~exited
    /\ wpc[w] \in {"range", "processing"}
    /\ JobChan # <<>>
    /\ wjob' = [wjob EXCEPT ![w] = Head(JobChan)]
    /\ JobChan' = Tail(JobChan)
    /\ wpc' = [wpc EXCEPT ![w] = "processing"]
    /\ UNCHANGED <<maxWorkers, queueSize, chanClosed, wg>>
    /\ UNCHANGED dispVars
    /\ UNCHANGED tbVars

\* a worker receiving the newest buffered job instead of the oldest
DequeueLast(w) ==
    /\ ~exited
    /\ wpc[w] = "range"
    /\ JobChan # <<>>
    /\ wjob' = [wjob EXCEPT ![w] = JobChan[Len(JobChan)]]
    /\ JobChan' = SubSeq(JobChan, 1, Len(JobChan) - 1)
    /\ wpc' = [wpc EXCEPT ![w] = "processing"]
    /\ UNCHANGED <<maxWorkers, queueSize, chanClosed, wg>>
    /\ UNCHANGED dispVars
    /\ UNCHANGED tbVars

\* a receive by a goroutine that NewWorkerPool never started
DequeueUnstarted(w) ==
    /\ ~exited
    /\ wpc[w] \in {"range", "none"}
    /\ JobChan # <<>>
    /\ wjob' = [wjob EXCEPT ![w] = Head(JobChan)]
    /\ JobChan' = Tail(JobChan)
    /\ wpc' = [wpc EXCEPT ![w] = "processing"]
    /\ UNCHANGED <<maxWorkers, queueSize, chanClosed, wg>>
    /\ UNCHANGED dispVars
    /\ UNCHANGED tbVars

\* range over JobChan: receive the next buffered job
Dequeue(w) ==
    /\ ~exited
    /\ wpc[w] = "range"
    /\ JobChan # <<>>
    /\ wjob' = [wjob EXCEPT ![w] = Head(JobChan)]
    /\ JobChan' = Tail(JobChan)
    /\ wpc' = [wpc EXCEPT ![w] = "processing"]
    /\ UNCHANGED <<maxWorkers, queueSize, chanClosed, wg>>
    /\ UNCHANGED dispVars
    /\ UNCHANGED tbVars

\* deadlines of processRequests, in seconds
ReadDeadline == 3

Write408Deadline == 1

Write200Deadline == 2

\* one call on the connection; d is the deadline it arms, in seconds
Sys(op, d) == [op |-> op, d |-> d]

\* processRequests reading without a read deadline
processRequestsCallsNoReadDeadline(readOk, writeOk) ==
    IF ~readOk
    THEN <<Sys("readerr", 0),
           Sys("SetWriteDeadline", Write408Deadline), Sys("write408", 0),
           Sys("close", 0)>>
    ELSE <<Sys("read", 0),
           Sys("SetWriteDeadline", Write200Deadline),
           Sys(IF writeOk THEN "write200" ELSE "write200err", 0),
           Sys("close", 0)>>

\* processRequests without the return after the 408: it goes on to the 200
processRequestsCallsFallThrough(readOk, writeOk) ==
    IF ~readOk
    THEN <<Sys("SetReadDeadline", ReadDeadline), Sys("readerr", 0),
           Sys("SetWriteDeadline", Write408Deadline), Sys("write408", 0),
           Sys("close", 0),
           Sys("SetWriteDeadline", Write200Deadline), Sys("write200err", 0),
           Sys("close", 0)>>
    ELSE <<Sys("SetReadDeadline", ReadDeadline), Sys("read", 0),
           Sys("SetWriteDeadline", Write200Deadline),
           Sys(IF writeOk THEN "write200" ELSE "write200err", 0),
           Sys("close", 0)>>

\* every call processRequests makes on the job's connection, in order
processRequestsCalls(readOk, writeOk) ==
    IF ~readOk
    THEN <<Sys("SetReadDeadline", ReadDeadline), Sys("readerr", 0),
           Sys("SetWriteDeadline", Write408Deadline), Sys("write408", 0),
           Sys("close", 0)>>
    ELSE <<Sys("SetReadDeadline", ReadDeadline), Sys("read", 0),
           Sys("SetWriteDeadline", Write200Deadline),
           Sys(IF writeOk THEN "write200" ELSE "write200err", 0),
           Sys("close", 0)>>

\* what the peer and the dispatcher's records see of a call sequence: the
\* reads, writes and closes, by the worker
Observed(calls) ==
    LET ops == SelectSeq(calls, LAMBDA x : x.op \notin {"SetReadDeadline", "SetWriteDeadline"})
    IN  [i \in DOMAIN ops |-> Ev(Worker, ops[i].op)]

\* processRequests answering a failed read with the 200 response
processRequestsNo408(readOk, writeOk) ==
    IF ~readOk
    THEN <<Ev(Worker, "readerr"), Ev(Worker, "write200"), Ev(Worker, "close")>>
    ELSE IF ~writeOk
         THEN <<Ev(Worker, "read"), Ev(Worker, "write200err"), Ev(Worker, "close")>>
         ELSE <<Ev(Worker, "read"), Ev(Worker, "write200"), Ev(Worker, "close")>>

\* processRequests closing on a failed read without writing the 408
processRequestsSilent(readOk, writeOk) ==
    IF ~readOk
    THEN <<Ev(Worker, "readerr"), Ev(Worker, "close")>>
    ELSE IF ~writeOk
         THEN <<Ev(Worker, "read"), Ev(Worker, "write200err"), Ev(Worker, "close")>>
         ELSE <<Ev(Worker, "read"), Ev(Worker, "write200"), Ev(Worker, "close")>>

\* the operations processRequests performs on the job's connection
processRequests(readOk, writeOk) == Observed(processRequestsCalls(readOk, writeOk))

\* a worker whose goroutine ends when processRequests meets a fault
ProcessFaultKillsWorker(w) ==
    /\ ~exited
    /\ wpc[w] = "processing"
    /\ \E readOk \in BOOLEAN, writeOk \in BOOLEAN :
          /\ io' = [io EXCEPT ![wjob[w]] = io[wjob[w]] \o processRequests(readOk, writeOk)]
          /\ IF readOk /\ writeOk
             THEN wpc' = [wpc EXCEPT ![w] = "range"] /\ wg' = wg
             ELSE wpc' = [wpc EXCEPT ![w] = "exited"] /\ wg' = wg - 1
    /\ wjob' = [wjob EXCEPT ![w] = 0]
    /\ UNCHANGED <<maxWorkers, queueSize, JobChan, chanClosed>>
    /\ UNCHANGED <<dpc, connCount, listener, exited, cpc, processed, atClose>>
    /\ UNCHANGED tbVars

Process(w) ==
    /\ ~exited
    /\ wpc[w] = "processing"
    /\ \E readOk \in BOOLEAN, writeOk \in BOOLEAN :
          io' = [io EXCEPT ![wjob[w]] = io[wjob[w]] \o processRequests(readOk, writeOk)]
    /\ wpc' = [wpc EXCEPT ![w] = "range"]
    /\ wjob' = [wjob EXCEPT ![w] = 0]
    /\ UNCHANGED <<maxWorkers, queueSize, JobChan, chanClosed, wg>>
    /\ UNCHANGED <<dpc, connCount, listener, exited, cpc, processed, atClose>>
    /\ UNCHANGED tbVars

\* a worker leaving its loop as soon as the queue is empty, closed or not
WorkerExitOnEmpty(w) ==
    /\ ~exited
    /\ wpc[w] = "range"
    /\ JobChan = <<>>
    /\ wpc' = [wpc EXCEPT ![w] = "exited"]
    /\ wg' = wg - 1
    /\ UNCHANGED <<maxWorkers, queueSize, JobChan, chanClosed, wjob>>
    /\ UNCHANGED dispVars
    /\ UNCHANGED tbVars

\* the range loop ends when the channel is closed and drained; wg.Done()
WorkerExit(w) ==
    /\ ~exited
    /\ wpc[w] = "range"
    /\ JobChan = <<>>
    /\ chanClosed
    /\ wpc' = [wpc EXCEPT ![w] = "exited"]
    /\ wg' = wg - 1
    /\ UNCHANGED <<maxWorkers, queueSize, JobChan, chanClosed, wjob>>
    /\ UNCHANGED dispVars
    /\ UNCHANGED tbVars

\* Server.Close, first statement: s.Listener.Close()
ListenerClose ==
    /\ ~exited
    /\ cpc = "idle"
    /\ listener' = "closed"
    /\ cpc' = "pool"
    /\ UNCHANGED poolVars
    /\ UNCHANGED <<dpc, connCount, exited, processed, atClose, io>>
    /\ UNCHANGED tbVars

\* WorkerPool.Close, first statement: close(w.JobChan); reached from
\* Server.Close or called on the pool directly
CloseJobChan ==
    /\ ~exited
    /\ cpc \in {"idle", "pool"}
    /\ chanClosed' = TRUE
    /\ cpc' = "wait"
    /\ atClose' = [queue |-> JobChan, conn |-> connCount, dpc |-> dpc]
    /\ UNCHANGED <<maxWorkers, queueSize, JobChan, wg, wpc, wjob>>
    /\ UNCHANGED <<dpc, connCount, listener, exited, processed, io>>
    /\ UNCHANGED tbVars

\* Close returning without waiting for the workers
WgNoWait ==
    /\ ~exited
    /\ cpc = "wait"
    /\ cpc' = "returned"
    /\ UNCHANGED poolVars
    /\ UNCHANGED <<dpc, connCount, listener, exited, processed, atClose, io>>
    /\ UNCHANGED tbVars

\* WorkerPool.Close, second statement: w.wg.Wait() returns
WgWait ==
    /\ ~exited
    /\ cpc = "wait"
    /\ wg = 0
    /\ cpc' = "returned"
    /\ UNCHANGED poolVars
    /\ UNCHANGED <<dpc, connCount, listener, exited, processed, atClose, io>>
    /\ UNCHANGED tbVars

\* ---------------------------------------------------------------------
\* Dispatcher: handleRequests
\* ---------------------------------------------------------------------

\* s.Listener.Accept() returns a connection; connID = connCount + 1
AcceptSkipsId ==
    /\ ~exited
    /\ dpc = "accept"
    /\ listener = "open"
    /\ connCount + 1 < MaxConns
    /\ connCount' = connCount + 2
    /\ dpc' = "limiter"
    /\ UNCHANGED poolVars
    /\ UNCHANGED <<listener, exited, cpc, processed, atClose, io>>
    /\ UNCHANGED tbVars

\* Accept handing out connections although the listener has been closed
AcceptOnClosedListener ==
    /\ ~exited
    /\ dpc = "accept"
    /\ connCount < MaxConns
    /\ connCount' = connCount + 1
    /\ dpc' = "limiter"
    /\ UNCHANGED poolVars
    /\ UNCHANGED <<listener, exited, cpc, processed, atClose, io>>
    /\ UNCHANGED tbVars

Accept ==
    /\ ~exited
    /\ dpc = "accept"
    /\ listener = "open"
    /\ connCount < MaxConns
    /\ connCount' = connCount + 1
    /\ dpc' = "limiter"
    /\ UNCHANGED poolVars
    /\ UNCHANGED <<listener, exited, cpc, processed, atClose, io>>
    /\ UNCHANGED tbVars

\* the accept loop logging the Accept error and going on with the iteration
AcceptErrorContinues ==
    /\ ~exited
    /\ dpc = "accept"
    /\ connCount < MaxConns
    /\ connCount' = connCount + 1
    /\ dpc' = "limiter"
    /\ UNCHANGED poolVars
    /\ UNCHANGED <<listener, exited, cpc, processed, atClose, io>>
    /\ UNCHANGED tbVars

\* s.Listener.Accept() returns an error (always so once the listener is
\* closed): log.Fatalf ends the process
AcceptError ==
    /\ ~exited
    /\ dpc = "accept"
    /\ exited' = TRUE
    /\ dpc' = "fatal"
    /\ UNCHANGED poolVars
    /\ UNCHANGED <<connCount, listener, cpc, processed, atClose, io>>
    /\ UNCHANGED tbVars

\* the limiter is disabled: MaxTokens > 0 is false, IsReqAllowed is not called
LimiterDisabled ==
    /\ ~exited
    /\ dpc = "limiter"
    /\ ~(tb.MaxTokens > 0)
    /\ dpc' = "submit"
    /\ UNCHANGED poolVars
    /\ UNCHANGED <<connCount, listener, exited, cpc, processed, atClose, io>>
    /\ UNCHANGED tbVars

\* the limiter check without the MaxTokens > 0 short-circuit
LimiterCheckAlways ==
    /\ ~exited
    /\ dpc = "limiter"
    /\ \E t \in tb.LastRefill .. MaxNow :
       LET r == IsReqAllowed(tb, t)
       IN  /\ tb' = r.tb
           /\ hist' = Append(hist, CallRecord(tb, t))
           /\ UNCHANGED muVars
           /\ IF r.ok
              THEN /\ dpc' = "submit"
                   /\ io' = io
              ELSE /\ dpc' = "accept"
                   /\ io' = [io EXCEPT ![connCount] =
                                <<Ev(Dispatcher, "write429"), Ev(Dispatcher, "close")>>]
    /\ UNCHANGED poolVars
    /\ UNCHANGED <<connCount, listener, exited, cpc, processed, atClose>>

\* MaxTokens > 0 && !IsReqAllowed(): 429, close, continue; otherwise go on.
\* t is the value time.Now() returns inside refillBucket
\* a limiter that waits for a token instead of denying
LimiterCheckWaits ==
    /\ ~exited
    /\ dpc = "limiter"
    /\ tb.MaxTokens > 0
    /\ \E t \in tb.LastRefill .. MaxNow :
       LET r == IsReqAllowed(tb, t)
       IN  /\ r.ok
           /\ tb' = r.tb
           /\ hist' = Append(hist, CallRecord(tb, t))
           /\ UNCHANGED muVars
           /\ dpc' = "submit"
    /\ UNCHANGED poolVars
    /\ UNCHANGED <<connCount, listener, exited, cpc, processed, atClose, io>>

\* a denied connection answered with 429 and still taken to the submit attempt
LimiterCheckDeniedSubmits ==
    /\ ~exited
    /\ dpc = "limiter"
    /\ tb.MaxTokens > 0
    /\ \E t \in tb.LastRefill .. MaxNow :
       LET r == IsReqAllowed(tb, t)
       IN  /\ tb' = r.tb
           /\ hist' = Append(hist, CallRecord(tb, t))
           /\ UNCHANGED muVars
           /\ dpc' = "submit"
           /\ IF r.ok
              THEN io' = io
              ELSE io' = [io EXCEPT ![connCount] =
                             <<Ev(Dispatcher, "write429"), Ev(Dispatcher, "close")>>]
    /\ UNCHANGED poolVars
    /\ UNCHANGED <<connCount, listener, exited, cpc, processed, atClose>>

LimiterCheck ==
    /\ ~exited
    /\ dpc = "limiter"
    /\ tb.MaxTokens > 0
    /\ \E t \in tb.LastRefill .. MaxNow :
       LET r == IsReqAllowed(tb, t)
       IN  /\ tb' = r.tb
           /\ hist' = Append(hist, CallRecord(tb, t))
           /\ UNCHANGED muVars
           /\ IF r.ok
              THEN /\ dpc' = "submit"
                   /\ io' = io
              ELSE /\ dpc' = "accept"
                   /\ io' = [io EXCEPT ![connCount] =
                                <<Ev(Dispatcher, "write429"), Ev(Dispatcher, "close")>>]
    /\ UNCHANGED poolVars
    /\ UNCHANGED <<connCount, listener, exited, cpc, processed, atClose>>

\* the send succeeding without atomic.AddInt64(&s.processed, 1)
SubmitAcceptedNoInc ==
    /\ ~exited
    /\ dpc = "submit"
    /\ ~chanClosed
    /\ Len(JobChan) < Capacity
    /\ JobChan' = Append(JobChan, connCount)
    /\ dpc' = "accept"
    /\ UNCHANGED <<maxWorkers, queueSize, chanClosed, wg, wpc, wjob>>
    /\ UNCHANGED <<connCount, listener, exited, cpc, processed, atClose, io>>
    /\ UNCHANGED tbVars

\* the send succeeding and the dispatcher closing the connection it handed over
SubmitAcceptedAndClose ==
    /\ ~exited
    /\ dpc = "submit"
    /\ ~chanClosed
    /\ Len(JobChan) < Capacity
    /\ JobChan' = Append(JobChan, connCount)
    /\ processed' = processed + 1
    /\ io' = [io EXCEPT ![connCount] = <<Ev(Dispatcher, "close")>>]
    /\ dpc' = "accept"
    /\ UNCHANGED <<maxWorkers, queueSize, chanClosed, wg, wpc, wjob>>
    /\ UNCHANGED <<connCount, listener, exited, cpc, atClose>>
    /\ UNCHANGED tbVars

\* select { case s.JobChan <- job: ... }, the send succeeds
SubmitAccepted ==
    /\ ~exited
    /\ dpc = "submit"
    /\ ~chanClosed
    /\ Len(JobChan) < Capacity
    /\ JobChan' = Append(JobChan, connCount)
    /\ processed' = processed + 1
    /\ dpc' = "accept"
    /\ UNCHANGED <<maxWorkers, queueSize, chanClosed, wg, wpc, wjob>>
    /\ UNCHANGED <<connCount, listener, exited, cpc, atClose, io>>
    /\ UNCHANGED tbVars

\* the blocking send of SubmitJob in place of the select: no step while full
SubmitBlocking ==
    /\ ~exited
    /\ dpc = "submit"
    /\ ~chanClosed
    /\ Len(JobChan) < Capacity
    /\ JobChan' = Append(JobChan, connCount)
    /\ processed' = processed + 1
    /\ dpc' = "accept"
    /\ UNCHANGED <<maxWorkers, queueSize, chanClosed, wg, wpc, wjob>>
    /\ UNCHANGED <<connCount, listener, exited, cpc, atClose, io>>
    /\ UNCHANGED tbVars

\* a busy rejection decided on the jobs in the system (buffered or being
\* processed) instead of on the buffer alone
SubmitBusyCountsHeld ==
    /\ ~exited
    /\ dpc = "submit"
    /\ ~chanClosed
    /\ ~(Len(JobChan) + Cardinality({w \in WorkerIds : wpc[w] = "processing"}) < Capacity)
    /\ io' = [io EXCEPT ![connCount] =
                 <<Ev(Dispatcher, "write503busy"), Ev(Dispatcher, "close")>>]
    /\ dpc' = "accept"
    /\ UNCHANGED poolVars
    /\ UNCHANGED <<connCount, listener, exited, cpc, processed, atClose>>
    /\ UNCHANGED tbVars

\* a busy rejection that gives the connection's token back to the bucket
SubmitBusyRefunds ==
    /\ ~exited
    /\ dpc = "submit"
    /\ ~chanClosed
    /\ ~(Len(JobChan) < Capacity)
    /\ io' = [io EXCEPT ![connCount] =
                 <<Ev(Dispatcher, "write503busy"), Ev(Dispatcher, "close")>>]
    /\ tb' = [tb EXCEPT !.Tokens = Min(tb.Tokens + 1, tb.MaxTokens)]
    /\ dpc' = "accept"
    /\ UNCHANGED poolVars
    /\ UNCHANGED <<connCount, listener, exited, cpc, processed, atClose>>
    /\ UNCHANGED <<hist, mu, callers>>

\* select { ... default: }, the buffer is full
SubmitBusy ==
    /\ ~exited
    /\ dpc = "submit"
    /\ ~chanClosed
    /\ ~(Len(JobChan) < Capacity)
    /\ io' = [io EXCEPT ![connCount] =
                 <<Ev(Dispatcher, "write503busy"), Ev(Dispatcher, "close")>>]
    /\ dpc' = "accept"
    /\ UNCHANGED poolVars
    /\ UNCHANGED <<connCount, listener, exited, cpc, processed, atClose>>
    /\ UNCHANGED tbVars

\* the send on the closed channel without the deferred recover: the panic
\* ends the process
SubmitPanics ==
    /\ ~exited
    /\ dpc = "submit"
    /\ chanClosed
    /\ exited' = TRUE
    /\ dpc' = "fatal"
    /\ UNCHANGED poolVars
    /\ UNCHANGED <<connCount, listener, cpc, processed, atClose, io>>
    /\ UNCHANGED tbVars

\* the deferred recover answering without closing the connection
SubmitShuttingDownNoClose ==
    /\ ~exited
    /\ dpc = "submit"
    /\ chanClosed
    /\ io' = [io EXCEPT ![connCount] = <<Ev(Dispatcher, "write503shutdown")>>]
    /\ dpc' = "accept"
    /\ UNCHANGED poolVars
    /\ UNCHANGED <<connCount, listener, exited, cpc, processed, atClose>>
    /\ UNCHANGED tbVars

\* a send on the closed channel that succeeds, as if the queue had reopened
SubmitShuttingDownEnqueues ==
    /\ ~exited
    /\ dpc = "submit"
    /\ chanClosed
    /\ JobChan' = Append(JobChan, connCount)
    /\ processed' = processed + 1
    /\ dpc' = "accept"
    /\ UNCHANGED <<maxWorkers, queueSize, chanClosed, wg, wpc, wjob>>
    /\ UNCHANGED <<connCount, listener, exited, cpc, atClose, io>>
    /\ UNCHANGED tbVars

\* the send panics on the closed channel; the deferred recover answers
SubmitShuttingDown ==
    /\ ~exited
    /\ dpc = "submit"
    /\ chanClosed
    /\ io' = [io EXCEPT ![connCount] =
                 <<Ev(Dispatcher, "write503shutdown"), Ev(Dispatcher, "close")>>]
    /\ dpc' = "accept"
    /\ UNCHANGED poolVars
    /\ UNCHANGED <<connCount, listener, exited, cpc, processed, atClose>>
    /\ UNCHANGED tbVars

\* the submit attempt of one iteration
Submit == SubmitAccepted \/ SubmitBusy \/ SubmitShuttingDown

\* NewServer: listener bound, pool started, limiter full
Init ==
    /\ maxWorkers \in 0 .. MaxW
    /\ queueSize \in 0 .. MaxQ
    /\ JobChan = <<>>
    /\ chanClosed = FALSE
    /\ wg = maxWorkers
    /\ wpc = [w \in WorkerIds |-> IF w < maxWorkers THEN "range" ELSE "none"]
    /\ wjob = [w \in WorkerIds |-> 0]
    /\ dpc = "accept"
    /\ connCount = 0
    /\ listener = "open"
    /\ exited = FALSE
    /\ cpc = "idle"
    /\ processed = 0
    /\ \E rate \in 0 .. SrvMaxRate, tokens \in 0 .. SrvMaxTok : tb = RateLimiter(rate, tokens, 0)
    /\ hist = <<>>
    /\ mu = 0
    /\ callers = [k \in CallerIds |-> Caller("none", FALSE)]
    /\ atClose = [queue |-> <<>>, conn |-> 0, dpc |-> "none"]
    /\ io = [c \in ConnIds |-> <<>>]

Next ==
    \/ Accept
    \/ AcceptError
    \/ LimiterDisabled
    \/ LimiterCheck
    \/ SubmitAccepted
    \/ SubmitBusy
    \/ SubmitShuttingDown
    \/ \E w \in WorkerIds : Dequeue(w)
    \/ \E w \in WorkerIds : Process(w)
    \/ \E w \in WorkerIds : WorkerExit(w)
    \/ ListenerClose
    \/ CloseJobChan
    \/ WgWait

Spec == Init /\ [][Next]_vars

\* the Go scheduler runs every runnable worker goroutine: a worker that can
\* receive, process or leave its range loop eventually does
WorkerFairness ==
    \A w \in WorkerIds :
        /\ WF_vars(Dequeue(w))
        /\ WF_vars(Process(w))
        /\ WF_vars(WorkerExit(w))

SpecFair == Spec /\ WorkerFairness

\* the goroutine that called Close is scheduled too: wg.Wait() returns once
\* the counter is zero
SpecFairClose == SpecFair /\ WF_vars(WgWait)

\* ---------------------------------------------------------------------
\* The dispatcher the entry point starts: Server.handleRequest, reached
\* through FireUpTheServer.  It differs from handleRequests in two places.
\* ---------------------------------------------------------------------

\* Accept returns an error: conn++ has run before the error is looked at,
\* then log.Fatalf ends the process
handleRequestAcceptError ==
    /\ ~exited
    /\ dpc = "accept"
    /\ connCount' = connCount + 1
    /\ exited' = TRUE
    /\ dpc' = "fatal"
    /\ UNCHANGED poolVars
    /\ UNCHANGED <<listener, cpc, processed, atClose, io>>
    /\ UNCHANGED tbVars

\* the select sends on the closed channel: the send panics, nothing
\* recovers, the runtime ends the process; the connection is left as it is
handleRequestSubmitOnClosed ==
    /\ ~exited
    /\ dpc = "submit"
    /\ chanClosed
    /\ exited' = TRUE
    /\ dpc' = "panic"
    /\ UNCHANGED poolVars
    /\ UNCHANGED <<connCount, listener, cpc, processed, atClose, io>>
    /\ UNCHANGED tbVars

handleRequest ==
    \/ Accept
    \/ handleRequestAcceptError
    \/ LimiterDisabled
    \/ LimiterCheck
    \/ SubmitAccepted
    \/ SubmitBusy
    \/ handleRequestSubmitOnClosed

NextEntry ==
    \/ handleRequest
    \/ \E w \in WorkerIds : Dequeue(w)
    \/ \E w \in WorkerIds : Process(w)
    \/ \E w \in WorkerIds : WorkerExit(w)
    \/ ListenerClose
    \/ CloseJobChan
    \/ WgWait

SpecEntry == Init /\ [][NextEntry]_vars

\* the token bucket alone: RateLimiter(rate, tokens) at time 0, no server
InitTB ==
    /\ maxWorkers = 0
    /\ queueSize = 0
    /\ JobChan = <<>>
    /\ chanClosed = FALSE
    /\ wg = 0
    /\ wpc = [w \in WorkerIds |-> "none"]
    /\ wjob = [w \in WorkerIds |-> 0]
    /\ dpc = "none"
    /\ connCount = 0
    /\ listener = "none"
    /\ exited = FALSE
    /\ cpc = "none"
    /\ processed = 0
    /\ \E rate \in 0 .. MaxRate, tokens \in 0 .. MaxTok : tb = RateLimiter(rate, tokens, 0)
    /\ hist = <<>>
    /\ mu = 0
    /\ callers = [k \in CallerIds |-> Caller("none", FALSE)]
    /\ atClose = [queue |-> <<>>, conn |-> 0, dpc |-> "none"]
    /\ io = [c \in ConnIds |-> <<>>]

NextTB == Call

SpecTB == InitTB /\ [][NextTB]_vars

\* ---------------------------------------------------------------------
\* IsReqAllowed called by several goroutines on one TokenBucket
\* ---------------------------------------------------------------------

serverVars == <<maxWorkers, queueSize, JobChan, chanClosed, wg, wpc, wjob, dpc,
                connCount, listener, exited, cpc, processed, atClose, io>>

At(k, pc) == callers[k].pc = pc

Goto(k, pc, ok) == callers' = [callers EXCEPT ![k] = Caller(pc, ok)]

\* IsReqAllowed entered without taking the mutex
MuLockNoMutex(k) ==
    /\ At(k, "call")
    /\ mu' = k
    /\ Goto(k, "refill", FALSE)
    /\ UNCHANGED <<tb, hist>>
    /\ UNCHANGED serverVars

\* tb.Mutex.Lock()
MuLock(k) ==
    /\ At(k, "call")
    /\ mu = 0
    /\ mu' = k
    /\ Goto(k, "refill", FALSE)
    /\ UNCHANGED <<tb, hist>>
    /\ UNCHANGED serverVars

\* tb.refillBucket(), at the time the caller reads the clock
MuRefill(k) ==
    /\ At(k, "refill")
    /\ \E t \in tb.LastRefill .. MaxNow : tb' = refillBucket(tb, t)
    /\ Goto(k, "test", FALSE)
    /\ UNCHANGED <<hist, mu>>
    /\ UNCHANGED serverVars

\* if tb.Tokens > 0 { ... } return false
MuTest(k) ==
    /\ At(k, "test")
    /\ IF tb.Tokens > 0
       THEN Goto(k, "dec", FALSE)
       ELSE Goto(k, "unlock", FALSE)
    /\ UNCHANGED <<tb, hist, mu>>
    /\ UNCHANGED serverVars

\* tb.Tokens--; return true
MuDec(k) ==
    /\ At(k, "dec")
    /\ tb' = [tb EXCEPT !.Tokens = tb.Tokens - 1]
    /\ Goto(k, "unlock", TRUE)
    /\ UNCHANGED <<hist, mu>>
    /\ UNCHANGED serverVars

\* the deferred tb.Mutex.Unlock(), as the call returns
MuUnlock(k) ==
    /\ At(k, "unlock")
    /\ mu' = 0
    /\ Goto(k, "done", callers[k].ok)
    /\ UNCHANGED <<tb, hist>>
    /\ UNCHANGED serverVars

\* K goroutines about to call IsReqAllowed on a fresh RateLimiter(rate, tokens)
InitMu ==
    /\ maxWorkers = 0
    /\ queueSize = 0
    /\ JobChan = <<>>
    /\ chanClosed = FALSE
    /\ wg = 0
    /\ wpc = [w \in WorkerIds |-> "none"]
    /\ wjob = [w \in WorkerIds |-> 0]
    /\ dpc = "none"
    /\ connCount = 0
    /\ listener = "none"
    /\ exited = FALSE
    /\ cpc = "none"
    /\ processed = 0
    /\ \E rate \in 0 .. MaxRate, tokens \in 0 .. MaxTok : tb = RateLimiter(rate, tokens, 0)
    /\ hist = <<>>
    /\ mu = 0
    /\ \E K \in CallerIds :
          callers = [k \in CallerIds |-> Caller(IF k <= K THEN "call" ELSE "none", FALSE)]
    /\ atClose = [queue |-> <<>>, conn |-> 0, dpc |-> "none"]
    /\ io = [c \in ConnIds |-> <<>>]

NextMu ==
    \E k \in CallerIds :
        \/ MuLock(k)
        \/ MuRefill(k)
        \/ MuTest(k)
        \/ MuDec(k)
        \/ MuUnlock(k)

SpecMu == InitMu /\ [][NextMu]_vars

\* ---------------------------------------------------------------------
\* Notions the properties are stated in
\* ---------------------------------------------------------------------

Has(c, op) == \E i \in DOMAIN io[c] : io[c][i].op = op

InChan(c) == \E i \in DOMAIN JobChan : JobChan[i] = c

Held(c) == \E w \in WorkerIds : wpc[w] = "processing" /\ wjob[w] = c

\* a worker ran processRequests on c to its end: one response write was
\* attempted and the connection closed
FullyProcessed(c) ==
    /\ Len(io[c]) = 3
    /\ io[c][1].by = Worker
    /\ io[c][2].op \in {"write408", "write200", "write200err"}
    /\ io[c][3].op = "close"

\* the send of c into JobChan succeeded
Enqueued(c) == InChan(c) \/ Held(c) \/ FullyProcessed(c)

Busy == {w \in WorkerIds : wpc[w] = "processing"}

InFlight == Len(JobChan) + Cardinality(Busy)

RECURSIVE SumAdded(_, _)
\* tokens the refills of calls i+1 .. j added
SumAdded(i, j) == IF j <= i THEN 0 ELSE hist[j].added + SumAdded(i, j - 1)

\* calls i+1 .. j each came less than 1/Rate seconds after the call before
PolledFast(i, j) ==
    \A k \in (i + 1) .. j : (hist[k].t - hist[k - 1].t) * tb.Rate < TicksPerSec

\* ---------------------------------------------------------------------
\* Properties
\* ---------------------------------------------------------------------

\* C1: whenever the dispatcher stands at its submit attempt, whatever the
\* queue (free, full, closed) and the workers (idle, busy, exited) are, the
\* attempt can be taken at once, and exactly one of its three outcomes
\* (accepted, rejected-busy, rejected-shutting-down) is the one it takes.
C1_SubmitNeverSuspends ==
    dpc = "submit" =>
        /\ ENABLED Submit
        /\ Cardinality({o \in {"accepted", "busy", "shutdown"} :
                          \/ o = "accepted" /\ ENABLED SubmitAccepted
                          \/ o = "busy" /\ ENABLED SubmitBusy
                          \/ o = "shutdown" /\ ENABLED SubmitShuttingDown}) = 1

C1_Witness ==
    /\ dpc = "submit"
    /\ ~chanClosed
    /\ Capacity > 0
    /\ Len(JobChan) = Capacity
    /\ \A w \in WorkerIds : w < maxWorkers => wpc[w] = "processing"

\* C2: the jobs buffered in the queue plus the jobs workers are processing
\* never number more than workerCount + queueSize.
C2_InFlightBound == InFlight <= maxWorkers + queueSize

\* C3: from an idle pool, with every worker held busy and no job completed,
\* once W+Q+1 connections that all passed the limiter have been dispatched,
\* exactly W+Q were accepted and one was answered 503 'server busy'.
C3_AdmissionBound ==
    ( /\ connCount = maxWorkers + queueSize + 1
      /\ dpc = "accept"
      /\ cpc = "idle"
      /\ \A c \in ConnIds : ~Has(c, "write429") /\ ~FullyProcessed(c)
      /\ \A w \in WorkerIds : w < maxWorkers => wpc[w] = "processing" )
    => /\ processed = maxWorkers + queueSize
       /\ Cardinality({c \in ConnIds : Has(c, "write503busy")}) = 1

\* C4: the bucket holds between 0 and MaxTokens tokens before and after
\* every call of IsReqAllowed, for any rate >= 0 and maxTokens >= 0.
C4_TokensInRange ==
    /\ 0 <= tb.Tokens
    /\ tb.Tokens <= tb.MaxTokens
    /\ \A i \in DOMAIN hist : 0 <= hist[i].left /\ hist[i].left <= tb.MaxTokens

\* a call whose refill, uncapped, would have overfilled the bucket
C4_Witness ==
    \E i \in DOMAIN hist :
        /\ i > 1
        /\ hist[i - 1].left = tb.MaxTokens - 1
        /\ (hist[i].t - hist[i - 1].t) * tb.Rate >= 2 * TicksPerSec
        /\ hist[i].ok

\* C5: a fresh limiter with maxTokens = T > 0 and rate > 0, called with no
\* time elapsed, allows exactly calls 1 .. T and denies call T+1.
C5_Burst ==
    (tb.MaxTokens > 0 /\ tb.Rate > 0) =>
        \A i \in DOMAIN hist :
            (\A j \in 1 .. i : hist[j].t = 0) => (hist[i].ok <=> i <= tb.MaxTokens)

C5_Witness ==
    /\ tb.MaxTokens = 2
    /\ tb.Rate > 0
    /\ Len(hist) = 3
    /\ hist[3].t = 0
    /\ ~hist[3].ok

\* C6: when the bucket is polled at intervals shorter than 1/rate seconds,
\* starting from an empty bucket, the tokens added over the elapsed time D
\* fall short of those of a single refill after D by at most one.
C6_NoFractionLost ==
    \A i \in DOMAIN hist : \A j \in DOMAIN hist :
        ( /\ i < j
          /\ hist[i].left = 0
          /\ PolledFast(i, j)
          /\ ((hist[j].t - hist[i].t) * tb.Rate) \div TicksPerSec <= tb.MaxTokens )
        => ((hist[j].t - hist[i].t) * tb.Rate) \div TicksPerSec - SumAdded(i, j) <= 1

\* C7 as stated: after a denied call, the next call, made exactly 1/rate
\* seconds later, is allowed, and a call right after that one is denied.
C7_RefillOne ==
    \A i \in DOMAIN hist :
        ( /\ i + 1 \in DOMAIN hist
          /\ ~hist[i].ok
          /\ (hist[i + 1].t - hist[i].t) * tb.Rate = TicksPerSec )
        => /\ hist[i + 1].ok
           /\ (i + 2 \in DOMAIN hist /\ hist[i + 2].t = hist[i + 1].t) => ~hist[i + 2].ok

\* C7 amended: the same, for a bucket with maxTokens >= 1.
C7_RefillOneEnabled == tb.MaxTokens >= 1 => C7_RefillOne

C7_Witness ==
    /\ tb.MaxTokens >= 1
    /\ \E i \in DOMAIN hist :
          /\ i + 2 \in DOMAIN hist
          /\ ~hist[i].ok
          /\ (hist[i + 1].t - hist[i].t) * tb.Rate = TicksPerSec
          /\ hist[i + 1].ok
          /\ hist[i + 2].t = hist[i + 1].t
          /\ ~hist[i + 2].ok

\* C8: with maxTokens = 0 IsReqAllowed is never called, no 429 is written,
\* and every connection accepted goes on to the submit attempt.
C8_DisabledLimiter ==
    tb.MaxTokens = 0 =>
        /\ hist = <<>>
        /\ \A c \in ConnIds : ~Has(c, "write429")
        /\ \A c \in 1 .. connCount :
              \/ c = connCount /\ dpc \in {"limiter", "submit"}
              \/ Enqueued(c)
              \/ Has(c, "write503busy")
              \/ Has(c, "write503shutdown")

C8_Witness ==
    /\ tb.MaxTokens = 0
    /\ tb.Rate > 0
    /\ connCount = MaxConns
    /\ dpc = "accept"

\* C9: a submit attempt that finds the queue closed writes the 503 'server
\* shutting down' response and closes the connection itself, enqueues
\* nothing, leaves the accepted counter alone, and ends neither the accept
\* loop nor a worker.
C9_ShutdownRace ==
    [][ (dpc = "submit" /\ chanClosed /\ dpc' # dpc) =>
            /\ io'[connCount] = <<Ev(Dispatcher, "write503shutdown"), Ev(Dispatcher, "close")>>
            /\ \A c \in ConnIds : c # connCount => io'[c] = io[c]
            /\ JobChan' = JobChan
            /\ processed' = processed
            /\ ~exited'
            /\ dpc' = "accept"
            /\ wpc' = wpc
            /\ wjob' = wjob ]_vars

\* the queue was closed while the dispatcher stood between the limiter
\* check and the submit attempt, and that connection has been answered
C9_Witness ==
    /\ atClose.dpc = "submit"
    /\ Has(atClose.conn, "write503shutdown")
    /\ ~exited

SeqHas(s, op) == \E i \in DOMAIN s : s[i].op = op

Count(s, ops) == Cardinality({i \in DOMAIN s : s[i].op \in ops})

Closes(c) == Count(io[c], {"close"})

Responses == {"write429", "write503busy", "write503shutdown", "write408",
              "write200", "write200err"}

\* the exit paths of a connection, by the operations that mark them
PathMarks == {"write429", "write503busy", "write503shutdown", "readerr",
              "write200err", "write200"}

\* C11: a connection that went down one of the six paths (rate-limited,
\* queue full, queue closed, read failure, write failure, success) went down
\* exactly one of them and was closed exactly once, as its last operation;
\* no connection is ever closed twice.
C11_ClosedExactlyOnce ==
    \A c \in ConnIds :
        /\ Closes(c) <= 1
        /\ io[c] # <<>> =>
              /\ Closes(c) = 1
              /\ io[c][Len(io[c])].op = "close"
              /\ Cardinality({m \in PathMarks : Has(c, m)}) = 1

C11_Witness ==
    \E a \in ConnIds, b \in ConnIds, c \in ConnIds :
        /\ Has(a, "readerr")
        /\ Has(b, "write200err")
        /\ Has(c, "write503busy")

\* what one step may do to connection c, and what it must do
C12_StepOK ==
    \A c \in ConnIds :
        LET new == io'[c]
            dispatched == c = connCount /\ dpc' # dpc
            finished == \E w \in WorkerIds :
                           wpc[w] = "processing" /\ wjob[w] = c /\ wpc'[w] # "processing"
        IN  /\ io[c] # <<>> => new = io[c]
            /\ Count(new, Responses) <= 1
            /\ io[c] = <<>> =>
                  /\ SeqHas(new, "write429") <=>
                        /\ dispatched
                        /\ dpc = "limiter"
                        /\ tb.MaxTokens > 0
                        /\ Len(hist') = Len(hist) + 1
                        /\ ~hist'[Len(hist')].ok
                  /\ SeqHas(new, "write503busy") <=>
                        /\ dispatched
                        /\ dpc = "submit"
                        /\ ~chanClosed
                        /\ Len(JobChan) >= Capacity
                  /\ SeqHas(new, "write503shutdown") <=>
                        /\ dispatched
                        /\ dpc = "submit"
                        /\ chanClosed
                  /\ SeqHas(new, "write408") <=> (finished /\ SeqHas(new, "readerr"))
                  /\ (SeqHas(new, "write200") \/ SeqHas(new, "write200err")) <=>
                        (finished /\ SeqHas(new, "read"))

\* C12: at most one response is written to a connection, and which one is
\* decided by its outcome: 429 iff the enabled limiter denied it, 503 'server
\* busy' iff it reached the submit attempt with the queue open and full, 503
\* 'server shutting down' iff it reached it with the queue closed, 408 iff a
\* worker processed it and the read failed, and the 200 write is attempted
\* iff a worker processed it and the read succeeded; that write may fail, and
\* then the connection gets no response.  No step does otherwise.
C12_StatusByOutcome == ~ENABLED (Next /\ ~C12_StepOK)

\* C12 as worded: the 200 response reaches every connection that was
\* dequeued and read successfully, and no other.
C12_Received200 ==
    \A c \in ConnIds :
        Has(c, "write200") <=> (FullyProcessed(c) /\ Has(c, "read"))

C12_Witness ==
    /\ tb.MaxTokens > 0
    /\ \E a \in ConnIds, b \in ConnIds, c \in ConnIds :
          /\ Has(a, "write429")
          /\ Has(b, "write408")
          /\ Has(c, "write200err")

\* C13: with at least one worker and workers scheduled fairly, every job in
\* the queue is eventually taken out of it by a worker.
C13_EventuallyDequeued ==
    \A c \in ConnIds : (maxWorkers >= 1 /\ InChan(c)) ~> ~InChan(c)

\* C14: the counter equals the number of jobs ever enqueued (still queued,
\* held by a worker, or processed), and a step changes it only by adding one
\* together with a send into the queue; the rejection paths leave it alone.
C14_CounterIsEnqueues ==
    /\ processed = Cardinality({c \in ConnIds : Enqueued(c)})
    /\ ~ENABLED (Next /\ processed' # processed
                      /\ ~(processed' = processed + 1
                           /\ JobChan' = Append(JobChan, connCount)))
    /\ ~ENABLED (Next /\ Len(JobChan') > Len(JobChan) /\ processed' = processed)

C14_Witness ==
    /\ processed = 2
    /\ \E a \in ConnIds : Has(a, "write503busy") \/ Has(a, "write429")
                            \/ Has(a, "write503shutdown")

\* the threads of control entitled to touch connection c: the dispatcher from
\* accept to the end of its iteration, the worker that dequeued its job
Owners(c) ==
    {<<Dispatcher, 0>> : x \in {y \in {c} : y = connCount /\ dpc \in {"limiter", "submit"}}}
    \cup {<<Worker, w>> : w \in {v \in WorkerIds : wpc[v] = "processing" /\ wjob[v] = c}}

\* every operation a step performs on a connection is by its one owner
C15_StepOK ==
    \A c \in ConnIds :
        io'[c] # io[c] =>
            /\ Len(io'[c]) > Len(io[c])
            /\ SubSeq(io'[c], 1, Len(io[c])) = io[c]
            /\ \E o \in Owners(c) :
                  \A i \in (Len(io[c]) + 1) .. Len(io'[c]) : io'[c][i].by = o[1]

\* C15: a connection has at most one owner at any moment; a queued or held
\* connection is not the dispatcher's and has not been touched; the operations
\* on one connection are all by one kind of thread; and a step touches a
\* connection only as its owner, so that after the enqueue the dispatcher
\* never writes to or closes it.
C15_ExclusiveOwnership ==
    /\ \A c \in ConnIds :
          /\ Cardinality(Owners(c)) <= 1
          /\ (InChan(c) \/ Held(c)) =>
                /\ io[c] = <<>>
                /\ <<Dispatcher, 0>> \notin Owners(c)
          /\ InChan(c) => Owners(c) = {}
          /\ \A i \in DOMAIN io[c], j \in DOMAIN io[c] : io[c][i].by = io[c][j].by
    /\ ~ENABLED (Next /\ ~C15_StepOK)

C15_Witness ==
    \E a \in ConnIds, b \in ConnIds, c \in ConnIds :
        /\ FullyProcessed(a)
        /\ Held(b)
        /\ c = connCount /\ dpc = "submit"

\* C16: identifiers are handed out 1, 2, 3, ... in acceptance order: the
\* counter grows by one at each accept and at no other step, every
\* identifier up to the counter belongs to a connection that is with the
\* dispatcher, queued, held or answered, none beyond the counter is in use,
\* and the job enqueued carries the identifier of the connection just
\* accepted, so the queue is strictly increasing.
C16_IdsInAcceptanceOrder ==
    /\ \A c \in ConnIds :
          IF c <= connCount
          THEN \/ (c = connCount /\ dpc \in {"limiter", "submit"})
               \/ InChan(c) \/ Held(c) \/ io[c] # <<>>
          ELSE ~InChan(c) /\ ~Held(c) /\ io[c] = <<>>
    /\ \A i \in DOMAIN JobChan, j \in DOMAIN JobChan : i < j => JobChan[i] < JobChan[j]
    /\ \A w \in WorkerIds, i \in DOMAIN JobChan : wjob[w] < JobChan[i]
    /\ ~ENABLED (Next /\ connCount' # connCount
                      /\ ~(connCount' = connCount + 1 /\ dpc = "accept" /\ dpc' = "limiter"))
    /\ ~ENABLED (Next /\ Len(JobChan') > Len(JobChan)
                      /\ JobChan' # Append(JobChan, connCount))

C16_Witness ==
    /\ connCount = 3
    /\ JobChan = <<1, 3>>
    /\ Has(2, "write429")

C18_ShutdownDrains ==
    (maxWorkers >= 1 /\ listener = "closed" /\ (exited \/ cpc = "returned")) =>
        \A c \in ConnIds : Enqueued(c) => FullyProcessed(c)

\* worker w meets a read or write failure on the job it holds
C19_FaultStep(w) ==
    /\ wpc[w] = "processing"
    /\ io'[wjob[w]] # io[wjob[w]]
    /\ SeqHas(io'[wjob[w]], "readerr") \/ SeqHas(io'[wjob[w]], "write200err")

\* the step touches that job's connection and that worker, nothing else
C19_Local(w) ==
    /\ \A c \in ConnIds : c # wjob[w] => io'[c] = io[c]
    /\ Count(io'[wjob[w]], {"close"}) = 1
    /\ Count(io'[wjob[w]], {"read", "readerr"}) = 1
    /\ Count(io'[wjob[w]], Responses) <= 1
    /\ JobChan' = JobChan
    /\ \A v \in WorkerIds : v # w => wpc'[v] = wpc[v] /\ wjob'[v] = wjob[v]
    /\ wpc'[w] = "range"
    /\ wjob'[w] = 0
    /\ wg' = wg
    /\ chanClosed' = chanClosed
    /\ ~exited'
    /\ <<dpc, connCount, listener, cpc, processed>>' = <<dpc, connCount, listener, cpc, processed>>

\* C19: a read or write failure on one job closes that job's connection once
\* and changes nothing else: the queue, the other connections, the other
\* workers and the dispatcher are as before, the job is not read or queued
\* again, and the worker is back at its range loop, where it receives the
\* next job as soon as there is one.
C19_FaultsAreLocal ==
    /\ ~ENABLED (Next /\ \E w \in WorkerIds : C19_FaultStep(w) /\ ~C19_Local(w))
    /\ \A w \in WorkerIds :
          (~exited /\ wpc[w] = "range" /\ JobChan # <<>>) => ENABLED Dequeue(w)
    /\ \A c \in ConnIds : io[c] # <<>> => ~InChan(c) /\ ~Held(c)

C19_Witness ==
    /\ maxWorkers = 1
    /\ \E a \in ConnIds, b \in ConnIds, c \in ConnIds :
          /\ Has(a, "readerr")
          /\ Has(b, "write200err")
          /\ Has(c, "write200")

\* C20: a connection rejected by the dispatcher or faulted on read gets its
\* response (429, 503 busy, 503 shutting down, 408) written before it is
\* closed, the write and the close being by the same thread and the close
\* coming right after the write.
C20_NoSilentDrops ==
    \A c \in ConnIds :
        /\ (io[c] # <<>> /\ io[c][1].by = Dispatcher) =>
              /\ Len(io[c]) = 2
              /\ io[c][1].op \in {"write429", "write503busy", "write503shutdown"}
              /\ io[c][2] = Ev(Dispatcher, "close")
        /\ Has(c, "readerr") =>
              io[c] = <<Ev(Worker, "readerr"), Ev(Worker, "write408"), Ev(Worker, "close")>>
        /\ \A i \in DOMAIN io[c] :
              (io[c][i].op = "close" /\ ~Has(c, "read")) =>
                  /\ i > 1
                  /\ io[c][i - 1].op \in Responses
                  /\ io[c][i - 1].by = io[c][i].by

C20_Witness ==
    \E a \in ConnIds, b \in ConnIds, c \in ConnIds :
        /\ Has(a, "write408")
        /\ Has(b, "write503busy")
        /\ Has(c, "write503shutdown")

\* C21: once the queue is closed it stays closed and no send into it succeeds
\* (the queue never grows, the counter never moves); the jobs buffered at the
\* closure stay buffered, in order, until a worker receives them: a worker at
\* its range loop can receive from the closed queue and cannot leave the loop
\* while a job remains.
C21_ClosedQueueOnlyDrains ==
    /\ chanClosed =>
          \E k \in 0 .. Len(atClose.queue) :
              /\ JobChan = SubSeq(atClose.queue, k + 1, Len(atClose.queue))
              /\ \A i \in 1 .. k :
                    Held(atClose.queue[i]) \/ FullyProcessed(atClose.queue[i])
    /\ ~ENABLED (Next /\ chanClosed
                      /\ (~chanClosed' \/ Len(JobChan') > Len(JobChan)
                          \/ processed' # processed))
    /\ \A w \in WorkerIds :
          (chanClosed /\ ~exited /\ wpc[w] = "range" /\ JobChan # <<>>) =>
              ENABLED Dequeue(w) /\ ~ENABLED WorkerExit(w)

C21_Witness ==
    /\ chanClosed
    /\ Len(atClose.queue) = 2
    /\ FullyProcessed(atClose.queue[1])
    /\ Held(atClose.queue[2])
    /\ \E c \in ConnIds : Has(c, "write503shutdown")

\* C22: a worker holds a job exactly while it is processing, it takes no
\* second job before it has finished the first, only the workerCount workers
\* that were started ever hold one, and so the jobs in processing never
\* number more than workerCount.
C22_OneJobPerWorker ==
    /\ \A w \in WorkerIds :
          /\ (wpc[w] = "processing") <=> (wjob[w] # 0)
          /\ w >= maxWorkers => wpc[w] = "none"
    /\ Cardinality({c \in ConnIds : Held(c)}) <= maxWorkers
    /\ Cardinality(Busy) <= maxWorkers
    /\ ~ENABLED (Next /\ \E w \in WorkerIds :
                     wpc[w] = "processing" /\ wjob'[w] \notin {wjob[w], 0})

C22_Witness ==
    /\ maxWorkers = 2
    /\ \A w \in WorkerIds : wpc[w] = "processing"
    /\ JobChan # <<>>

\* the workers that have left their range loop
Exited == {w \in WorkerIds : wpc[w] = "exited"}

\* C23: a worker leaves its loop only from the range statement with the queue
\* closed and empty, it reports to the wait group in that same step and never
\* runs again, the wait group changes at no other step, and so its counter is
\* always workerCount minus the number of workers that have left: it starts
\* at workerCount and never goes below zero.
C23_WorkerExitOnce ==
    /\ wg = maxWorkers - Cardinality(Exited)
    /\ wg >= 0
    /\ Exited # {} => chanClosed
    /\ ~ENABLED (Next /\ \E w \in WorkerIds :
                     /\ wpc[w] # "exited"
                     /\ wpc'[w] = "exited"
                     /\ ~(wpc[w] = "range" /\ chanClosed /\ JobChan = <<>>
                          /\ wg' = wg - 1))
    /\ ~ENABLED (Next /\ wg' # wg
                      /\ ~(\E w \in WorkerIds : wpc[w] # "exited" /\ wpc'[w] = "exited"))
    /\ ~ENABLED (Next /\ \E w \in WorkerIds : wpc[w] = "exited" /\ wpc'[w] # "exited")

C23_Witness ==
    /\ maxWorkers = 2
    /\ wg = 0
    /\ Len(atClose.queue) >= 1
    /\ \A i \in DOMAIN atClose.queue : FullyProcessed(atClose.queue[i])

\* C24: with at least one worker, workers and the caller of Close scheduled
\* fairly, closing the queue leads to Close having returned with every
\* started worker out of its loop and the queue empty.
C24_CloseTerminates ==
    (maxWorkers >= 1 /\ chanClosed) ~>
        (cpc = "returned" /\ JobChan = <<>> /\ Cardinality(Exited) = maxWorkers)

\* every read and every write directly follows the arming of its deadline,
\* there is one read and one response write, and the last call is the close
DeadlinesArmed(calls) ==
    /\ \A i \in DOMAIN calls :
          /\ calls[i].op \in {"read", "readerr"} =>
                i > 1 /\ calls[i - 1].op = "SetReadDeadline" /\ calls[i - 1].d > 0
          /\ calls[i].op \in Responses =>
                i > 1 /\ calls[i - 1].op = "SetWriteDeadline" /\ calls[i - 1].d > 0
    /\ Count(calls, {"read", "readerr"}) = 1
    /\ Count(calls, Responses) = 1
    /\ Count(calls, {"close"}) = 1
    /\ calls[Len(calls)].op = "close"

\* the longest the calls can wait in all: the sum of the armed deadlines
RECURSIVE MaxWait(_)
MaxWait(calls) ==
    IF calls = <<>> THEN 0 ELSE Head(calls).d + MaxWait(Tail(calls))

\* C25: a worker inside the processor can always finish it: the step that
\* completes processing is enabled whenever a worker holds a job; the
\* operations recorded on a processed connection are those of a call sequence
\* of processRequests in which the read and the write each directly follow
\* the arming of their deadline, with one read, one response write and a
\* final close, so that the worker waits at most the read deadline plus the
\* longer write deadline; and the step takes the worker back to its loop.
C25_ProcessingTerminates ==
    /\ \A w \in WorkerIds :
          (wpc[w] = "processing" /\ ~exited) => ENABLED Process(w)
    /\ \A c \in ConnIds :
          (io[c] # <<>> /\ io[c][1].by = Worker) =>
              \E readOk \in BOOLEAN, writeOk \in BOOLEAN :
                  LET calls == processRequestsCalls(readOk, writeOk)
                  IN  /\ io[c] = Observed(calls)
                      /\ DeadlinesArmed(calls)
                      /\ MaxWait(calls) <= ReadDeadline + Write200Deadline
    /\ ~ENABLED (Next /\ \E w \in WorkerIds :
                     /\ wpc[w] = "processing" /\ io'[wjob[w]] # io[wjob[w]]
                     /\ ~(wpc'[w] = "range" /\ Count(io'[wjob[w]], {"close"}) = 1))

C25_Witness ==
    /\ \E a \in ConnIds, b \in ConnIds :
          /\ io[a] = Observed(processRequestsCalls(FALSE, TRUE))
          /\ io[b] = Observed(processRequestsCalls(TRUE, TRUE))
    /\ \E w \in WorkerIds : wpc[w] = "processing"

\* the jobs that have left the queue: held by a worker or processed by one
Dequeued == {c \in ConnIds : Held(c) \/ FullyProcessed(c)}

\* C26: the queue keeps the order of the sends and every receive takes its
\* oldest job: the job a worker receives is the head of the queue, it is
\* larger than every job received before it (by any worker) and smaller than
\* every job still buffered.
C26_Fifo ==
    /\ \A c \in Dequeued : \A i \in DOMAIN JobChan : c < JobChan[i]
    /\ \A i \in DOMAIN JobChan, j \in DOMAIN JobChan : i < j => JobChan[i] < JobChan[j]
    /\ ~ENABLED (Next /\ Len(JobChan') > Len(JobChan)
                      /\ SubSeq(JobChan', 1, Len(JobChan)) # JobChan)
    /\ ~ENABLED (Next /\ \E w \in WorkerIds :
                     /\ wjob'[w] # wjob[w]
                     /\ wjob'[w] # 0
                     /\ ~(/\ wjob'[w] = Head(JobChan)
                          /\ JobChan' = Tail(JobChan)
                          /\ \A c \in Dequeued : c < wjob'[w]
                          /\ \A i \in DOMAIN JobChan' : wjob'[w] < JobChan'[i]))

C26_Witness ==
    /\ maxWorkers = 1
    /\ FullyProcessed(1)
    /\ Held(2)
    /\ JobChan = <<3>>

\* C27: the step that rejects a connection with 429 changes nothing of the
\* pool (queue, closed flag, wait group, workers) nor the counter and takes
\* the dispatcher straight back to accept, not to the submit attempt; a
\* connection answered with 429 is never in the queue, held or processed.
C27_RateLimitPathFrame ==
    /\ \A c \in ConnIds :
          Has(c, "write429") =>
              /\ ~Enqueued(c)
              /\ ~(c = connCount /\ dpc = "submit")
              /\ io[c] = <<Ev(Dispatcher, "write429"), Ev(Dispatcher, "close")>>
    /\ ~ENABLED (Next /\ \E c \in ConnIds :
                     /\ ~Has(c, "write429")
                     /\ SeqHas(io'[c], "write429")
                     /\ ~(/\ poolVars' = poolVars
                          /\ processed' = processed
                          /\ dpc' = "accept"))

C27_Witness ==
    /\ Has(3, "write429")
    /\ Held(1)
    /\ JobChan = <<2>>
    /\ processed = 2

\* position of the first operation op on connection c (0 if there is none)
Pos(c, op) ==
    IF Has(c, op) THEN CHOOSE i \in DOMAIN io[c] :
                           io[c][i].op = op /\ \A j \in 1 .. (i - 1) : io[c][j].op # op
    ELSE 0

\* C28: on a connection a worker processed there is one read attempt and one
\* response write; after a failed read the write is the 408, directly
\* followed by the close, and no 200 is written; a 200 (delivered or failed)
\* is written only after a successful read; never both 408 and 200.
C28_Exclusive408And200 ==
    \A c \in ConnIds :
        (io[c] # <<>> /\ io[c][1].by = Worker) =>
            /\ Count(io[c], {"read", "readerr"}) = 1
            /\ Count(io[c], {"write408", "write200", "write200err"}) = 1
            /\ ~(Has(c, "write408") /\ (Has(c, "write200") \/ Has(c, "write200err")))
            /\ Has(c, "readerr") =>
                  /\ Pos(c, "write408") = Pos(c, "readerr") + 1
                  /\ Pos(c, "close") = Pos(c, "write408") + 1
                  /\ Len(io[c]) = Pos(c, "close")
            /\ (Has(c, "write200") \/ Has(c, "write200err")) =>
                  /\ Has(c, "read")
                  /\ Pos(c, "read") < Pos(c, "write200") + Pos(c, "write200err")
            /\ Has(c, "read") => (Has(c, "write200") \/ Has(c, "write200err"))

C28_Witness ==
    /\ processed = 3
    /\ \E a \in ConnIds, b \in ConnIds, c \in ConnIds :
          /\ Has(a, "write408")
          /\ Has(b, "write200")
          /\ Has(c, "write200err")

\* the goroutines that call IsReqAllowed, and those whose call returned true
Active == {k \in CallerIds : ~At(k, "none")}

Allowed == {k \in CallerIds : At(k, "done") /\ callers[k].ok}

Inside == {k \in CallerIds : callers[k].pc \in {"refill", "test", "dec", "unlock"}}

\* C29: at most one caller is between Lock and Unlock, and it holds the
\* mutex; when no time has elapsed the calls take effect one at a time: the
\* tokens never go below zero, with the mutex free the tokens are the initial
\* T minus the calls allowed so far, and when all K calls have returned
\* exactly min(K, T) of them returned true and T - min(K, T) tokens remain.
C29_Linearizable ==
    /\ Cardinality(Inside) <= 1
    /\ \A k \in Inside : mu = k
    /\ tb.LastRefill = 0 =>
          /\ tb.Tokens >= 0
          /\ mu = 0 => tb.Tokens = tb.MaxTokens - Cardinality(Allowed)
          /\ (\A k \in Active : At(k, "done")) =>
                /\ Cardinality(Allowed) = Min(Cardinality(Active), tb.MaxTokens)
                /\ tb.Tokens = tb.MaxTokens - Min(Cardinality(Active), tb.MaxTokens)

C29_Witness ==
    /\ tb.LastRefill = 0
    /\ tb.MaxTokens = 2
    /\ Cardinality(Active) = 3
    /\ \A k \in Active : At(k, "done")
    /\ Cardinality(Allowed) = 2

\* the calls i..j of the history that were allowed
AllowedIn(i, j) == Cardinality({k \in i .. j : hist[k].ok})

\* C30: among the calls made so far, those allowed between any call i and
\* any later call j number at most maxTokens plus the whole tokens that the
\* rate yields over the time from call i to call j.
C30_RateBound ==
    \A i \in DOMAIN hist, j \in DOMAIN hist :
        i <= j =>
            AllowedIn(i, j) <=
                tb.MaxTokens + (tb.Rate * (hist[j].t - hist[i].t)) \div TicksPerSec

C30_Witness ==
    \E i \in DOMAIN hist, j \in DOMAIN hist :
        /\ i < j
        /\ tb.MaxTokens > 0
        /\ (tb.Rate * (hist[j].t - hist[i].t)) \div TicksPerSec > 0
        /\ AllowedIn(i, j) =
              tb.MaxTokens + (tb.Rate * (hist[j].t - hist[i].t)) \div TicksPerSec

\* C31: the step in which Accept fails assigns no identifier, consumes no
\* token, enqueues nothing and touches no connection, and it ends the loop:
\* from then on no step of the program happens at all, so the identifier
\* counter, the bucket, the queue and the counter of accepted jobs stay as
\* the failed Accept found them.  Once the listener is closed Accept can
\* only fail.
C31_AcceptErrorIsFatal ==
    /\ exited <=> dpc = "fatal"
    /\ exited => ~ENABLED Next
    /\ ~ENABLED (Next /\ dpc = "accept" /\ listener = "closed" /\ dpc' # "fatal"
                      /\ dpc' # dpc)
    /\ ~ENABLED (Next /\ dpc = "accept" /\ dpc' = "fatal"
                      /\ ~(/\ exited'
                           /\ connCount' = connCount
                           /\ tb' = tb
                           /\ hist' = hist
                           /\ JobChan' = JobChan
                           /\ processed' = processed
                           /\ io' = io))
    /\ ~ENABLED (Next /\ listener = "closed" /\ connCount' # connCount)

C31_Witness ==
    /\ exited
    /\ listener = "open"
    /\ connCount = 2
    /\ JobChan # <<>>
    /\ tb.MaxTokens > 0

\* C32: in the dispatcher the entry point starts, whenever the dispatcher is
\* at the submit attempt with the queue closed, its step answers the
\* connection, closes it and goes back to accept, and no step from there
\* ends the process.
C32_ClosedSubmitIsRejection ==
    /\ (dpc = "submit" /\ chanClosed /\ ~exited) =>
          ENABLED (handleRequest /\ dpc' = "accept"
                   /\ Count(io'[connCount], Responses) = 1
                   /\ Count(io'[connCount], {"close"}) = 1)
    /\ ~ENABLED (handleRequest /\ dpc = "submit" /\ chanClosed /\ exited')

\* the response bodies, byte by byte (all are ASCII: one byte per character)
Body429 ==
    <<"R", "a", "t", "e", " ", "l", "i", "m", "i", "t", " ", "e",
      "x", "c", "e", "e", "d", "e", "d">>

Body503Busy ==
    <<"S", "e", "r", "v", "e", "r", " ", "b", "u", "s", "y", ",",
      " ", "t", "r", "y", " ", "a", "g", "a", "i", "n", " ", "l",
      "a", "t", "e", "r">>

Body503ShuttingDown ==
    <<"S", "e", "r", "v", "e", "r", " ", "s", "h", "u", "t", "t",
      "i", "n", "g", " ", "d", "o", "w", "n">>

Body200 ==
    <<"H", "e", "l", "l", "o", " ", "w", "o", "r", "l", "d", " ",
      "!", "\n">>

Body408 == <<>>

\* the response an operation writes: status, declared Content-Length, body
Response(op) ==
    CASE op = "write429" -> [status |-> 429, length |-> 20, body |-> Body429]
      [] op = "write503busy" -> [status |-> 503, length |-> 28, body |-> Body503Busy]
      [] op = "write503shutdown" ->
            [status |-> 503, length |-> 28, body |-> Body503ShuttingDown]
      [] op = "write408" -> [status |-> 408, length |-> 0, body |-> Body408]
      [] op \in {"write200", "write200err"} ->
            [status |-> 200, length |-> 14, body |-> Body200]

\* C33: every response written to a connection declares as Content-Length
\* the number of bytes of its body.
C33_ContentLengthMatches ==
    \A c \in ConnIds : \A i \in DOMAIN io[c] :
        io[c][i].op \in Responses =>
            Response(io[c][i].op).length = Len(Response(io[c][i].op).body)

AllBusy == \A w \in WorkerIds : w < maxWorkers => wpc[w] = "processing"

TokensBefore(c) == IF c = 1 THEN tb.MaxTokens ELSE hist[c - 1].left

\* connection c passed the limiter: it is at the submit attempt or beyond
ReachedSubmit(c) ==
    \/ (c = connCount /\ dpc = "submit")
    \/ Enqueued(c)
    \/ Has(c, "write503busy")
    \/ Has(c, "write503shutdown")

\* C36: with the limiter enabled each connection has had one limiter check,
\* in acceptance order; a connection is at the submit attempt or beyond
\* exactly if its check was allowed, and that check took one token from the
\* refilled bucket; a denied connection's check took none; and the bucket
\* now holds what the last check left, whatever became of the connections
\* since (enqueued, rejected as busy, rejected as shutting down).
C36_OneTokenNoRefund ==
    tb.MaxTokens > 0 =>
        /\ Len(hist) = IF dpc = "limiter" THEN connCount - 1 ELSE connCount
        /\ \A c \in DOMAIN hist :
              /\ ReachedSubmit(c) <=> hist[c].ok
              /\ Has(c, "write429") <=> ~hist[c].ok
              /\ hist[c].left =
                    TokensBefore(c) + hist[c].added - (IF hist[c].ok THEN 1 ELSE 0)
        /\ tb.Tokens = IF hist = <<>> THEN tb.MaxTokens ELSE hist[Len(hist)].left

C36_Witness ==
    /\ tb.MaxTokens > 0
    /\ \E a \in ConnIds, b \in ConnIds, c \in ConnIds :
          /\ Has(a, "write503busy")
          /\ Has(b, "write503shutdown")
          /\ Has(c, "write429")

\* C37: with rate 0 and maxTokens T > 0 no refill ever adds a token: of the
\* limiter checks made so far exactly the first T were allowed, whenever
\* they were made, and every connection after the T-th was answered 429.
C37_ZeroRateNeverRefills ==
    (tb.Rate = 0 /\ tb.MaxTokens > 0) =>
        \A i \in DOMAIN hist :
            /\ hist[i].added = 0
            /\ hist[i].ok <=> i <= tb.MaxTokens
            /\ (i \in ConnIds /\ dpc # "none") =>
                  (Has(i, "write429") <=> i > tb.MaxTokens)

C37_Witness ==
    /\ tb.Rate = 0
    /\ tb.MaxTokens = 1
    /\ Len(hist) = 3
    /\ hist[1].ok
    /\ hist[2].t > 0
    /\ hist[3].t = MaxNow
    /\ Has(2, "write429")
    /\ Has(3, "write429")

\* the connections answered 503 'server shutting down'
ShutDownAnswered == {c \in ConnIds : Has(c, "write503shutdown")}

\* C38: when the queue was closed through Server.Close (listener first), no
\* connection has been accepted since the queue closed, at most one
\* connection has been answered 'server shutting down', and it is the one
\* the dispatcher was holding, past accept, when the queue closed.
C38_OneShutdownRejection ==
    (chanClosed /\ listener = "closed") =>
        /\ connCount = atClose.conn
        /\ Cardinality(ShutDownAnswered) <= 1
        /\ \A c \in ShutDownAnswered :
              c = atClose.conn /\ atClose.dpc \in {"limiter", "submit"}
        /\ ~ENABLED Accept

C38_Witness ==
    /\ listener = "closed"
    /\ chanClosed
    /\ connCount = 2
    /\ Has(2, "write503shutdown")
    /\ Enqueued(1)

====
